---- MODULE Spec2Model ----
(***************************************************************************)
(* A model of blackbox.search_min (src/blackbox.py): the batch scheduler   *)
(* with its checkpoint file, stop marker, executor and result file.        *)
(*                                                                         *)
(* Reading of the source.  The bare names continue_search, widen_search,   *)
(* np, rseq and rbf used inside search_min are read as the object's flags  *)
(* (self.continue_search, self.widen_search), numpy and the two static     *)
(* methods.  A point's coordinates are abstracted to an integer tag that   *)
(* identifies the point: k > 0 is the k-th point of the R-sequence         *)
(* ((0.5 + alpha*k) % 1, line 217), 0 is a row of np.zeros, and a tag < 0  *)
(* is a point returned by the constrained solver.  A value is an exact     *)
(* rational <<numerator, denominator>>.  Rows are numbered from 0 as in    *)
(* the source; Row(p, r) reads row r of a point array.                     *)
(***************************************************************************)
EXTENDS Integers, Sequences, FiniteSets, TLC

\* ------------------------------------------------------------------------
\* Bounds of the model
\* ------------------------------------------------------------------------
MaxBudget == 4

MaxBatch == 2

MaxDim == 2

MaxRuns == 3

MaxRetries == 1

MaxBudgetR == 100

MaxBatchR == 12

\* bounds of the radius specification
MaxBudgetD == 12

MaxP == 2

\* bound of the exploitation specification
MaxBudgetE == 6

\* the points the constrained solver can return (tags < 0)
SolverPoints == {-1, -2}

\* line 176: SLSQP returns minfit.x whether or not it converged; point -1 is
\* a converged result (every distance constraint holds), point -2 the last
\* iterate of a failed solve (minfit.success False, a constraint violated)
SolverFeasible(x) == x = -1

\* line 177: the result is kept unless its first coordinate is NaN
Accepted(nan0, x) == ~nan0

\* lines 143-144, 181-182: leaving the with block releases the executor,
\* whether or not the map raised
Released_leak(h, raised) == IF raised THEN h ELSE h - 1

Released(h, raised) == h - 1

\* line 48: rho0=0.5, p=1.0
DefaultRho0 == <<1, 2>>

DefaultP == 1

\* a file that does not exist
NoFile == [exists |-> FALSE]

VARIABLES
    savefile,         \* the .npz checkpoint: NoFile or its record
    resfile,          \* the result file: NoFile or the rows last written
    pc,               \* position of search_min
    err,              \* the exception that ended the call ("" if none)
    runs,             \* number of search_min calls made so far
    continue_search,  \* self.continue_search
    widen_search,     \* self.widen_search
    domain,           \* number of ranges in domain (argument, then maybe restored)
    budget,
    batch,
    restored,         \* TRUE iff the checkpoint branch (lines 81-88) was taken
    curr_iter,
    d,
    n,
    m,
    bound,            \* FALSE while the local name points is unbound
    points,           \* the sequence of rows [x |-> tag, v |-> value]
    fmax,
    fit,              \* number of rows the current RBF fit was built from
    i,
    j,
    held,             \* executor instances currently acquired
    retries,          \* rejected solver results for the current candidate
    stop,             \* what the last os.path.isfile('stop') returned
    checked,          \* TRUE from a stop check until that batch is saved
    loaded,           \* history: the checkpoint as read by this call
    evalLog,          \* history: the executor calls of this call
    candLog,          \* history: the candidates stored by this call
    writes,           \* history: the curr_iter of every checkpoint written by this call
    baseCkpt,         \* history: savefile as left by the last completed batch
    baseRes,          \* history: resfile when this call started
    rho0,             \* initial balls density (argument)
    pdecay,           \* p, the rate of balls density decay (argument)
    rpow              \* r ** d for the r of line 172 (followed in SpecRadius)

vars == <<savefile, resfile, pc, err, runs, continue_search, widen_search,
          domain, budget, batch, restored, curr_iter, d, n, m, bound, points,
          fmax, fit, i, j, held, retries, stop, checked, loaded, evalLog, candLog,
          writes, baseCkpt, baseRes, rho0, pdecay, rpow>>

\* ------------------------------------------------------------------------
\* Exact rationals <<num, den>>, den > 0, in lowest terms
\* ------------------------------------------------------------------------
Abs(a) == IF a < 0 THEN -a ELSE a

RECURSIVE GCD(_, _)
GCD(a, b) == IF b = 0 THEN a ELSE GCD(b, a % b)

Rat(a, b) ==
    LET s == IF b < 0 THEN -1 ELSE 1
        g == GCD(Abs(a), Abs(b))
    IN  IF a = 0 THEN <<0, 1>> ELSE <<(s * a) \div g, (s * b) \div g>>

RDiv(x, y) == Rat(x[1] * y[2], x[2] * y[1])

RMul(x, y) == Rat(x[1] * y[1], x[2] * y[2])

RAbs(x) == <<Abs(x[1]), x[2]>>

RLeq(x, y) == x[1] * y[2] <= y[1] * x[2]

One == <<1, 1>>

Zero == <<0, 1>>

\* ------------------------------------------------------------------------
\* Point arrays
\* ------------------------------------------------------------------------
Row(p, r) == p[r + 1]

\* np.zeros((cnt, d+1))
Zeros(cnt) == [k \in 1..cnt |-> [x |-> 0, v |-> Zero]]

\* the rows a Python slice [lo:hi] selects in an array of len rows
Slice(lo, hi, len) == {r \in 0..(len - 1) : lo <= r /\ r < hi}

\* rseq(cnt, d): the points of sequence index 1..cnt
rseq(cnt) == [k \in 1..cnt |-> k]

\* the objective f at the point with tag x
Objective(x) == IF x > 0 THEN x + 1 ELSE IF x = 0 THEN 1 ELSE 3 * x

\* cubetobox: the image of point x in the box, an affine map of the cube
\* (here onto a box from 100 with sides of 10)
cubetobox(x) == 100 + (10 * x)

\* max(abs(points[:, -1]))
RECURSIVE MaxAbs(_)
MaxAbs(p) ==
    IF Len(p) = 1 THEN RAbs(p[1].v)
    ELSE LET r == MaxAbs(Tail(p))
         IN  IF RLeq(r, RAbs(p[1].v)) THEN RAbs(p[1].v) ELSE r

\* results[results[:, -1].argsort()]
RECURSIVE Insert(_, _)
Insert(row, s) ==
    IF s = <<>> THEN <<row>>
    ELSE IF RLeq(row.v, s[1].v) THEN <<row>> \o s
         ELSE <<s[1]>> \o Insert(row, Tail(s))

RECURSIVE Argsort(_)
Argsort(p) == IF p = <<>> THEN <<>> ELSE Insert(p[1], Argsort(Tail(p)))

\* save_csv: what is written to resfile
save_csv(results, f, isArgsort) ==
    LET conv == [k \in 1..Len(results) |->
                    [x |-> cubetobox(results[k].x), v |-> RMul(results[k].v, f)]]
    IN  IF isArgsort THEN Argsort(conv) ELSE conv

\* ------------------------------------------------------------------------
\* Pieces of search_min
\* ------------------------------------------------------------------------
\* os.path.isfile(savefile) and self.continue_search
ContinuesFrom(file, cont) == file.exists /\ cont

\* mutant: the restored index is not advanced past the saved batch
LoadedCurrIter_same(saved) == saved

\* curr_iter = npzfile['curr_iter'] + 1
LoadedCurrIter(saved) == saved + 1

\* mutant: a batch is added even to a budget that is already a multiple
AdjustedBudget_always(b, bt) == (b - (b % bt)) + bt

\* adjusting the budget to the batch size
AdjustedBudget(b, bt) == IF b % bt # 0 THEN (b - (b % bt)) + bt ELSE b

\* n = budget//2, rounded up to the batch size
ExploreCount(b, bt) ==
    LET h == b \div 2
    IN  IF h % bt # 0 THEN (h - (h % bt)) + bt ELSE h

\* m = budget-n
ExploitCount(b, nn) == b - nn

\* mutant: n = d is let through
InsufficientBudget_strict(nn, dd) == nn < dd

\* n has to be greater than d
InsufficientBudget(nn, dd) == nn <= dd

\* if not continue_search: the branch that generates the R-sequence
GeneratesFresh(cont) == ~cont

\* mutant: the stop marker is ignored
StopSeen_never(present) == FALSE

\* if os.path.isfile('stop')
StopSeen(present) == present

\* mutant: the exploitation loop always starts at 0
ExploitStart_zero(ci, nn, bt) == 0

\* first index of the exploitation loop: range(curr_iter-n//batch, m//batch)
ExploitStart(ci, nn, bt) == ci - (nn \div bt)

\* curr_iter saved by an exploitation batch: i+n//batch
ExploitIter(ii, nn, bt) == ii + (nn \div bt)

\* budget, n and m are numpy integers exactly when budget was read from the
\* checkpoint; otherwise the radius is computed with Python floats
NumpyNumbers == restored /\ ~widen_search

Terminal == {"done", "stopped", "aborted", "failed"}

Checkpoint(it) ==
    [exists |-> TRUE, domain |-> domain, budget |-> budget, batch |-> batch,
     points |-> points, curr_iter |-> it]

\* ------------------------------------------------------------------------
\* Initial state: no files, no call made
\* ------------------------------------------------------------------------
Init ==
    /\ savefile = NoFile
    /\ resfile = NoFile
    /\ pc = "idle"
    /\ err = ""
    /\ runs = 0
    /\ continue_search = TRUE
    /\ widen_search = FALSE
    /\ domain = 1
    /\ budget = 1
    /\ batch = 1
    /\ restored = FALSE
    /\ curr_iter = 0
    /\ d = 0
    /\ n = 0
    /\ m = 0
    /\ bound = FALSE
    /\ points = <<>>
    /\ fmax = One
    /\ fit = 0
    /\ i = 0
    /\ j = 0
    /\ held = 0
    /\ retries = 0
    /\ stop = FALSE
    /\ checked = FALSE
    /\ loaded = NoFile
    /\ evalLog = <<>>
    /\ candLog = <<>>
    /\ writes = <<>>
    /\ baseCkpt = NoFile
    /\ baseRes = NoFile
    /\ rho0 = DefaultRho0
    /\ pdecay = DefaultP
    /\ rpow = Zero

\* blackbox(continue_search, widen_search).search_min(f, domain, budget, batch, resfile)
Call(cs, ws, dom, bud, bt) ==
    /\ pc \in Terminal \cup {"idle"}
    /\ runs < MaxRuns
    /\ runs' = runs + 1
    /\ continue_search' = cs
    /\ widen_search' = ws
    /\ domain' = dom
    /\ budget' = bud
    /\ batch' = bt
    /\ pc' = "load"
    /\ err' = ""
    /\ restored' = FALSE
    /\ curr_iter' = 0
    /\ d' = 0
    /\ n' = 0
    /\ m' = 0
    /\ bound' = FALSE
    /\ points' = <<>>
    /\ fmax' = One
    /\ fit' = 0
    /\ i' = 0
    /\ j' = 0
    /\ retries' = 0
    /\ stop' = FALSE
    /\ checked' = FALSE
    /\ loaded' = NoFile
    /\ evalLog' = <<>>
    /\ candLog' = <<>>
    /\ writes' = <<>>
    /\ baseCkpt' = savefile
    /\ baseRes' = resfile
    /\ rho0' = DefaultRho0
    /\ pdecay' = DefaultP
    /\ rpow' = Zero
    /\ UNCHANGED <<savefile, resfile, held>>

\* lines 78-91: continue work
Load ==
    /\ pc = "load"
    /\ IF ContinuesFrom(savefile, continue_search)
       THEN /\ curr_iter' = LoadedCurrIter(savefile.curr_iter)
            /\ domain' = savefile.domain
            /\ points' = savefile.points
            /\ bound' = TRUE
            /\ budget' = IF ~widen_search THEN savefile.budget ELSE budget
            /\ restored' = TRUE
            /\ loaded' = savefile
       ELSE /\ curr_iter' = 0
            /\ UNCHANGED <<domain, bound, points, budget, restored, loaded>>
    /\ pc' = "budget"
    /\ UNCHANGED <<savefile, resfile, err, runs, continue_search, widen_search,
                   batch, d, n, m, fmax, fit, i, j, held, retries, stop,
                   checked, evalLog, candLog, writes, baseCkpt, baseRes,
                   rho0, pdecay, rpow>>

\* lines 93-110: space size, budget adjustment, n > d
Budget ==
    /\ pc = "budget"
    /\ d' = domain
    /\ budget' = AdjustedBudget(budget, batch)
    /\ n' = ExploreCount(budget', batch)
    /\ m' = ExploitCount(budget', n')
    /\ pc' = IF InsufficientBudget(n', d') THEN "aborted" ELSE "generate"
    /\ UNCHANGED <<savefile, resfile, err, runs, continue_search, widen_search,
                   domain, batch, restored, curr_iter, bound, points, fmax, fit, i, j,
                   held, retries, stop, checked, loaded, evalLog, candLog,
                   writes, baseCkpt, baseRes,
                   rho0, pdecay, rpow>>

\* points[curr_iter*batch:, :-1] = rseq(n-curr_iter*batch, d) on array p
Widened(p, ci, bt) ==
    [k \in 1..Len(p) |->
        IF k - 1 >= ci * bt
        THEN [p[k] EXCEPT !.x = rseq(Len(p) - ci * bt)[k - ci * bt]]
        ELSE p[k]]

\* lines 127-135: the point set of this call
Generate ==
    /\ pc = "generate"
    /\ IF GeneratesFresh(continue_search)
       THEN /\ points' = [k \in 1..n |-> [x |-> rseq(n)[k], v |-> Zero]]
            /\ bound' = TRUE
            /\ pc' = "explore"
            /\ UNCHANGED <<n, err>>
       ELSE IF widen_search
       THEN IF ~bound
            THEN /\ pc' = "failed"
                 /\ err' = "UnboundLocalError"
                 /\ UNCHANGED <<bound, points, n>>
            ELSE LET p1 == points \o Zeros(n)
                 IN  /\ n' = Len(p1)
                     /\ bound' = bound
                     /\ IF Len(p1) - curr_iter * batch <= 0
                        THEN \* an array of shape (0,) does not broadcast to (0, d)
                             /\ points' = p1
                             /\ pc' = "failed"
                             /\ err' = "ValueError"
                        ELSE /\ points' = Widened(p1, curr_iter, batch)
                             /\ pc' = "explore"
                             /\ err' = err
       ELSE /\ pc' = "explore"
            /\ UNCHANGED <<bound, points, n, err>>
    /\ i' = curr_iter
    /\ UNCHANGED <<savefile, resfile, runs, continue_search, widen_search,
                   domain, budget, batch, restored, curr_iter, d, m, fmax, fit,
                   j, held, retries, stop, checked, loaded, evalLog, candLog,
                   writes, baseCkpt, baseRes,
                   rho0, pdecay, rpow>>

\* ------------------------------------------------------------------------
\* Initial sampling (lines 138-147)
\* ------------------------------------------------------------------------
\* e.map(f, map(cubetobox, p[lo:hi, 0:-1])) stored into p[lo:hi, -1], each
\* result divided by scale: result t of the list goes to row t of the slice
Evaluated(p, lo, hi, scale) ==
    LET rows == Slice(lo, hi, Len(p))
        res == [t \in 1..Cardinality(rows) |->
                   RDiv(Rat(Objective(Row(p, lo + t - 1).x), 1), scale)]
    IN  [k \in 1..Len(p) |->
            IF (k - 1) \in rows THEN [p[k] EXCEPT !.v = res[k - lo]] ELSE p[k]]

Invocation(ph, ii, lo, hi, len, ok) ==
    [phase |-> ph, i |-> ii, start |-> lo, len |-> len,
     rows |-> Slice(lo, hi, len), ok |-> ok]

\* line 138: the loop is over
ExploreExit ==
    /\ pc = "explore"
    /\ ~(i < n \div batch)
    /\ pc' = "normalize"
    /\ UNCHANGED <<savefile, resfile, err, runs, continue_search, widen_search,
                   domain, budget, batch, restored, curr_iter, d, n, m, bound, points,
                   fmax, fit, i, j, held, retries, stop, checked, loaded,
                   evalLog, candLog, writes, baseCkpt, baseRes,
                   rho0, pdecay, rpow>>

\* lines 138-142: top of an exploration batch, the stop check
ExploreTop ==
    /\ pc = "explore"
    /\ i < n \div batch
    /\ \E present \in BOOLEAN :
          /\ stop' = present
          /\ pc' = IF StopSeen(present) THEN "stopped" ELSE "explore_eval"
    /\ checked' = TRUE
    /\ UNCHANGED <<savefile, resfile, err, runs, continue_search, widen_search,
                   domain, budget, batch, restored, curr_iter, d, n, m, bound, points,
                   fmax, fit, i, j, held, retries, loaded, evalLog, candLog,
                   writes, baseCkpt, baseRes,
                   rho0, pdecay, rpow>>

\* line 143: with executor() as e
ExploreAcquire ==
    /\ pc = "explore_eval"
    /\ held' = held + 1
    /\ pc' = "explore_map"
    /\ UNCHANGED <<savefile, resfile, err, runs, continue_search, widen_search,
                   domain, budget, batch, restored, curr_iter, d, n, m, bound, points,
                   fmax, fit, i, j, retries, stop, checked, loaded, evalLog,
                   candLog, writes, baseCkpt, baseRes,
                   rho0, pdecay, rpow>>

\* line 144 and the exit of the with block (Pool.__exit__ terminates the pool)
ExploreMap ==
    /\ pc = "explore_map"
    /\ IF ~bound
       THEN /\ pc' = "failed"
            /\ err' = "UnboundLocalError"
            /\ held' = Released(held, TRUE)
            /\ UNCHANGED <<points, evalLog>>
       ELSE \E ok \in BOOLEAN :
               /\ held' = Released(held, ~ok)
               /\ evalLog' = Append(evalLog,
                     Invocation("explore", i, batch * i, batch * (i + 1), Len(points), ok))
               /\ IF ok
                  THEN /\ points' = Evaluated(points, batch * i, batch * (i + 1), One)
                       /\ pc' = "explore_save"
                       /\ err' = err
                  ELSE /\ pc' = "failed"
                       /\ err' = "ObjectiveError"
                       /\ points' = points
    /\ UNCHANGED <<bound, savefile, resfile, runs, continue_search, widen_search,
                   domain, budget, batch, restored, curr_iter, d, n, m, fmax,
                   fit, i, j, retries, stop, checked, loaded, candLog, writes,
                   baseCkpt, baseRes,
                   rho0, pdecay, rpow>>

\* lines 145-147: checkpoint, then the incremental report
ExploreSave ==
    /\ pc = "explore_save"
    /\ savefile' = Checkpoint(i)
    /\ resfile' = [exists |-> TRUE, rows |-> save_csv(points, One, FALSE)]
    /\ writes' = Append(writes, i)
    /\ baseCkpt' = savefile'
    /\ checked' = FALSE
    /\ i' = i + 1
    /\ pc' = "explore"
    /\ UNCHANGED <<err, runs, continue_search, widen_search, domain, budget,
                   batch, restored, curr_iter, d, n, m, bound, points, fmax, fit, j,
                   held, retries, stop, loaded, evalLog, candLog, baseRes,
                   rho0, pdecay, rpow>>

\* lines 149-157: normalizing function values
Normalize ==
    /\ pc = "normalize"
    /\ fmax' = MaxAbs(points)
    /\ points' = [k \in 1..Len(points) |->
                     [points[k] EXCEPT !.v = RDiv(points[k].v, fmax')]]
    /\ i' = ExploitStart(curr_iter, n, batch)
    /\ pc' = "exploit"
    /\ UNCHANGED <<bound, savefile, resfile, err, runs, continue_search, widen_search,
                   domain, budget, batch, restored, curr_iter, d, n, m, fit, j,
                   held, retries, stop, checked, loaded, evalLog, candLog,
                   writes, baseCkpt, baseRes,
                   rho0, pdecay, rpow>>

\* ------------------------------------------------------------------------
\* Subsequent iterations (lines 161-186)
\* ------------------------------------------------------------------------
\* line 161: the loop is over
ExploitExit ==
    /\ pc = "exploit"
    /\ ~(i < m \div batch)
    /\ pc' = "final"
    /\ UNCHANGED <<savefile, resfile, err, runs, continue_search, widen_search,
                   domain, budget, batch, restored, curr_iter, d, n, m, bound, points,
                   fmax, fit, i, j, held, retries, stop, checked, loaded,
                   evalLog, candLog, writes, baseCkpt, baseRes,
                   rho0, pdecay, rpow>>

\* lines 161-169: top of an exploitation batch: stop check, fit, new rows
ExploitTop ==
    /\ pc = "exploit"
    /\ i < m \div batch
    /\ \E present \in BOOLEAN :
          /\ stop' = present
          /\ IF StopSeen(present)
             THEN /\ pc' = "stopped"
                  /\ UNCHANGED <<fit, points, j>>
             ELSE /\ fit' = Len(points)
                  /\ points' = points \o Zeros(batch)
                  /\ j' = 0
                  /\ pc' = "select"
    /\ checked' = TRUE
    /\ retries' = 0
    /\ UNCHANGED <<bound, savefile, resfile, err, runs, continue_search, widen_search,
                   domain, budget, batch, restored, curr_iter, d, n, m, fmax,
                   i, held, loaded, evalLog, candLog, writes, baseCkpt, baseRes,
                   rho0, pdecay, rpow>>

\* np.pi, to the precision the exact rationals afford
Pi == <<22, 7>>

RECURSIVE factorial(_)
factorial(k) == IF k <= 0 THEN 1 ELSE k * factorial(k - 1)

RECURSIVE RPow(_, _)
RPow(x, k) == IF k <= 0 THEN One ELSE RMul(x, RPow(x, k - 1))

\* lines 154-157: volume of the d-dimensional unit ball
V1(dd) ==
    IF dd % 2 = 0
    THEN RDiv(RPow(Pi, dd \div 2), <<factorial(dd \div 2), 1>>)
    ELSE RDiv(RMul(<<2 * factorial((dd - 1) \div 2), 1>>,
                   RPow(RMul(<<4, 1>>, Pi), (dd - 1) \div 2)),
              <<factorial(dd), 1>>)

\* line 172 before the d-th root: (rho0*((m-1-g)/(m-1))**p)/(v1*(n+g))
Density_grow(rh, pp, vv, nn, mm, g) ==
    RDiv(RMul(rh, RPow(Rat((mm - 1) + g, mm - 1), pp)), RMul(vv, <<nn + g, 1>>))

Density(rh, pp, vv, nn, mm, g) ==
    RDiv(RMul(rh, RPow(Rat((mm - 1) - g, mm - 1), pp)), RMul(vv, <<nn + g, 1>>))

\* line 172 raises ZeroDivisionError with Python floats when m = 1 or no
\* point is counted; numpy floats give inf or nan and go on
RadiusRaises(g) == ~NumpyNumbers /\ (m = 1 \/ n + g = 0)

\* lines 171-172: the radius of candidate j cannot be computed
SelectRaise ==
    /\ pc = "select"
    /\ RadiusRaises(i * batch + j)
    /\ pc' = "failed"
    /\ err' = "ZeroDivisionError"
    /\ UNCHANGED <<savefile, resfile, runs, continue_search, widen_search,
                   domain, budget, batch, restored, curr_iter, d, n, m, bound, points,
                   fmax, fit, i, j, held, retries, stop, checked, loaded,
                   evalLog, candLog, writes, baseCkpt, baseRes,
                   rho0, pdecay, rpow>>

\* a rejected result ends the call (what lines 175-178 do not do)
SelectRetry_fatal ==
    /\ pc = "select"
    /\ ~RadiusRaises(i * batch + j)
    /\ ~Accepted(TRUE, 0)
    /\ retries' = IF retries < MaxRetries THEN retries + 1 ELSE retries
    /\ pc' = "failed"
    /\ err' = "SolverError"
    /\ UNCHANGED <<savefile, resfile, runs, continue_search,
                   widen_search, domain, budget, batch, restored, curr_iter, d,
                   n, m, bound, points, fmax, fit, i, j, held, stop, checked, loaded,
                   evalLog, candLog, writes, baseCkpt, baseRes,
                   rho0, pdecay, rpow>>

\* lines 175-178: the solver result is rejected (np.isnan(minfit.x)[0]) and
\* the loop goes round again; retries counts the rejections up to MaxRetries
SelectRetry ==
    /\ pc = "select"
    /\ ~RadiusRaises(i * batch + j)
    /\ ~Accepted(TRUE, 0)
    /\ retries' = IF retries < MaxRetries THEN retries + 1 ELSE retries
    /\ UNCHANGED <<savefile, resfile, pc, err, runs, continue_search,
                   widen_search, domain, budget, batch, restored, curr_iter, d,
                   n, m, bound, points, fmax, fit, i, j, held, stop, checked, loaded,
                   evalLog, candLog, writes, baseCkpt, baseRes,
                   rho0, pdecay, rpow>>

\* lines 171-179: candidate j of the batch is accepted and stored
Select ==
    /\ pc = "select"
    /\ ~RadiusRaises(i * batch + j)
    /\ \E x \in SolverPoints :
          /\ Accepted(FALSE, x)
          /\ LET g == i * batch + j
                 row == n + g
             IN  IF row >= Len(points)
                 THEN /\ pc' = "failed"
                      /\ err' = "IndexError"
                      /\ UNCHANGED <<points, candLog, j>>
                 ELSE /\ points' = [points EXCEPT ![row + 1].x = x]
                      /\ candLog' = Append(candLog,
                            [i |-> i, j |-> j, g |-> g, count |-> n + g,
                             placed |-> fit + j, row |-> row, x |-> x,
                             feasible |-> SolverFeasible(x),
                             old |-> Row(points, row)])
                      /\ j' = j + 1
                      /\ pc' = IF j + 1 < batch THEN "select" ELSE "exploit_eval"
                      /\ err' = err
    /\ retries' = 0
    /\ UNCHANGED <<bound, savefile, resfile, runs, continue_search, widen_search,
                   domain, budget, batch, restored, curr_iter, d, n, m, fmax,
                   fit, i, held, stop, checked, loaded, evalLog, writes,
                   baseCkpt, baseRes,
                   rho0, pdecay, rpow>>

\* line 181: with executor() as e
ExploitAcquire ==
    /\ pc = "exploit_eval"
    /\ held' = held + 1
    /\ pc' = "exploit_map"
    /\ UNCHANGED <<savefile, resfile, err, runs, continue_search, widen_search,
                   domain, budget, batch, restored, curr_iter, d, n, m, bound, points,
                   fmax, fit, i, j, retries, stop, checked, loaded, evalLog,
                   candLog, writes, baseCkpt, baseRes,
                   rho0, pdecay, rpow>>

\* line 182 and the exit of the with block
ExploitMap ==
    /\ pc = "exploit_map"
    /\ \E ok \in BOOLEAN :
          /\ held' = Released(held, ~ok)
          /\ evalLog' = Append(evalLog,
                Invocation("exploit", ExploitIter(i, n, batch), n + batch * i,
                           n + batch * (i + 1), Len(points), ok))
          /\ IF ok
             THEN /\ points' = Evaluated(points, n + batch * i, n + batch * (i + 1), fmax)
                  /\ pc' = "exploit_save"
                  /\ err' = err
             ELSE /\ pc' = "failed"
                  /\ err' = "ObjectiveError"
                  /\ points' = points
    /\ UNCHANGED <<bound, savefile, resfile, runs, continue_search, widen_search,
                   domain, budget, batch, restored, curr_iter, d, n, m, fmax,
                   fit, i, j, retries, stop, checked, loaded, candLog, writes,
                   baseCkpt, baseRes,
                   rho0, pdecay, rpow>>

\* lines 184-186: checkpoint, then the incremental report
ExploitSave ==
    /\ pc = "exploit_save"
    /\ savefile' = Checkpoint(ExploitIter(i, n, batch))
    /\ resfile' = [exists |-> TRUE, rows |-> save_csv(points, fmax, FALSE)]
    /\ writes' = Append(writes, ExploitIter(i, n, batch))
    /\ baseCkpt' = savefile'
    /\ checked' = FALSE
    /\ i' = i + 1
    /\ pc' = "exploit"
    /\ UNCHANGED <<err, runs, continue_search, widen_search, domain, budget,
                   batch, restored, curr_iter, d, n, m, bound, points, fmax, fit, j,
                   held, retries, stop, loaded, evalLog, candLog, baseRes,
                   rho0, pdecay, rpow>>

\* lines 188-191: the final report; save_csv converts points in place
Final ==
    /\ pc = "final"
    /\ resfile' = [exists |-> TRUE, rows |-> save_csv(points, fmax, TRUE)]
    /\ points' = save_csv(points, fmax, FALSE)
    /\ pc' = "done"
    /\ UNCHANGED <<bound, savefile, err, runs, continue_search, widen_search, domain,
                   budget, batch, restored, curr_iter, d, n, m, fmax, fit, i,
                   j, held, retries, stop, checked, loaded, evalLog, candLog,
                   writes, baseCkpt, baseRes,
                   rho0, pdecay, rpow>>

Next ==
    \/ \E cs \in BOOLEAN, ws \in BOOLEAN, dom \in 1..MaxDim,
          bud \in 1..MaxBudget, bt \in 1..MaxBatch : Call(cs, ws, dom, bud, bt)
    \/ Load
    \/ Budget
    \/ Generate
    \/ ExploreExit
    \/ ExploreTop
    \/ ExploreAcquire
    \/ ExploreMap
    \/ ExploreSave
    \/ Normalize
    \/ ExploitExit
    \/ ExploitTop
    \/ SelectRaise
    \/ SelectRetry
    \/ Select
    \/ ExploitAcquire
    \/ ExploitMap
    \/ ExploitSave
    \/ Final

Spec == Init /\ [][Next]_vars

\* ------------------------------------------------------------------------
\* Budget rounding on its own: every budget and batch size up to the bounds
\* ------------------------------------------------------------------------
InitRounding ==
    /\ savefile = NoFile
    /\ resfile = NoFile
    /\ pc = "budget"
    /\ err = ""
    /\ runs = 1
    /\ continue_search \in BOOLEAN
    /\ widen_search = FALSE
    /\ domain \in 1..MaxDim
    /\ budget \in 1..MaxBudgetR
    /\ batch \in 1..MaxBatchR
    /\ restored = FALSE
    /\ curr_iter = 0
    /\ d = 0
    /\ n = 0
    /\ m = 0
    /\ bound = FALSE
    /\ points = <<>>
    /\ fmax = One
    /\ fit = 0
    /\ i = 0
    /\ j = 0
    /\ held = 0
    /\ retries = 0
    /\ stop = FALSE
    /\ checked = FALSE
    /\ loaded = NoFile
    /\ evalLog = <<>>
    /\ candLog = <<>>
    /\ writes = <<>>
    /\ baseCkpt = NoFile
    /\ baseRes = NoFile
    /\ rho0 = DefaultRho0
    /\ pdecay = DefaultP
    /\ rpow = Zero

NextRounding == Budget

SpecRounding == InitRounding /\ [][NextRounding]_vars

\* ------------------------------------------------------------------------
\* The radius of line 172 over one exploitation phase, for the call
\* arguments of the bounded sets below (a fresh point set, g = i*batch+j
\* running from 0 as the loop of line 161 intends)
\* ------------------------------------------------------------------------
\* values of the argument rho0
Rho0s == {DefaultRho0, <<3, 1>>}

InitRadius ==
    /\ savefile = NoFile
    /\ resfile = NoFile
    /\ pc = "select"
    /\ err = ""
    /\ runs = 1
    /\ continue_search = FALSE
    /\ widen_search = FALSE
    /\ domain \in 1..MaxDim
    /\ d = domain
    /\ batch \in 1..MaxBatch
    /\ budget \in {AdjustedBudget(b, batch) : b \in 1..MaxBudgetD}
    /\ n = ExploreCount(budget, batch)
    /\ m = ExploitCount(budget, n)
    /\ ~InsufficientBudget(n, d)
    /\ m > 0
    /\ restored = FALSE
    /\ curr_iter = 0
    /\ bound = TRUE
    /\ points = [k \in 1..n |-> [x |-> rseq(n)[k], v |-> One]]
    /\ fmax = One
    /\ fit = n
    /\ i = 0
    /\ j = 0
    /\ held = 0
    /\ retries = 0
    /\ stop = FALSE
    /\ checked = TRUE
    /\ loaded = NoFile
    /\ evalLog = <<>>
    /\ candLog = <<>>
    /\ writes = <<>>
    /\ baseCkpt = NoFile
    /\ baseRes = NoFile
    /\ rho0 \in Rho0s
    /\ pdecay \in 1..MaxP
    /\ rpow = Density(rho0, pdecay, V1(d), n, m, 0)

\* lines 161, 171-172: the radius of the next candidate of the phase
RadiusStep ==
    /\ pc = "select"
    /\ i * batch + j + 1 < m
    /\ j' = (j + 1) % batch
    /\ i' = IF j + 1 < batch THEN i ELSE i + 1
    /\ rpow' = Density(rho0, pdecay, V1(d), n, m, i * batch + j + 1)
    /\ UNCHANGED <<savefile, resfile, pc, err, runs, continue_search,
                   widen_search, domain, budget, batch, restored, curr_iter, d,
                   n, m, bound, points, fmax, fit, held, retries, stop, checked,
                   loaded, evalLog, candLog, writes, baseCkpt, baseRes,
                   rho0, pdecay>>

NextRadius == RadiusStep

SpecRadius == InitRadius /\ [][NextRadius]_vars

\* ------------------------------------------------------------------------
\* The exploitation phase of a call that resumes the checkpoint of the last
\* exploration batch (the calls of Spec in which line 161 starts at 0),
\* from the end of its empty exploration loop
\* ------------------------------------------------------------------------
\* the point set after the exploration of cnt rows, values as evaluated
Explored(cnt) ==
    [k \in 1..cnt |-> [x |-> rseq(cnt)[k], v |-> <<Objective(rseq(cnt)[k]), 1>>]]

InitExploit ==
    /\ pc = "normalize"
    /\ err = ""
    /\ runs = 2
    /\ continue_search = TRUE
    /\ widen_search = FALSE
    /\ domain \in 1..MaxDim
    /\ d = domain
    /\ batch \in 1..MaxBatch
    /\ budget \in {AdjustedBudget(b, batch) : b \in 1..MaxBudgetE}
    /\ n = ExploreCount(budget, batch)
    /\ m = ExploitCount(budget, n)
    /\ ~InsufficientBudget(n, d)
    /\ restored = TRUE
    /\ curr_iter = n \div batch
    /\ bound = TRUE
    /\ points = Explored(n)
    /\ loaded = [exists |-> TRUE, domain |-> domain, budget |-> budget,
                 batch |-> batch, points |-> points,
                 curr_iter |-> curr_iter - 1]
    /\ savefile = loaded
    /\ resfile = [exists |-> TRUE, rows |-> save_csv(points, One, FALSE)]
    /\ fmax = One
    /\ fit = 0
    /\ i = curr_iter
    /\ j = 0
    /\ held = 0
    /\ retries = 0
    /\ stop = FALSE
    /\ checked = FALSE
    /\ evalLog = <<>>
    /\ candLog = <<>>
    /\ writes = <<>>
    /\ baseCkpt = savefile
    /\ baseRes = resfile
    /\ rho0 = DefaultRho0
    /\ pdecay = DefaultP
    /\ rpow = Zero

NextExploit ==
    \/ Normalize
    \/ ExploitExit
    \/ ExploitTop
    \/ SelectRetry
    \/ Select
    \/ ExploitAcquire
    \/ ExploitMap
    \/ ExploitSave
    \/ Final

SpecExploit == InitExploit /\ [][NextExploit]_vars

\* line 176: every solve starts from a new random point, and a solve that is
\* repeated for ever does not return NaN for ever
FairExploit == SpecExploit /\ WF_vars(Select)

\* ------------------------------------------------------------------------
\* Properties
\* ------------------------------------------------------------------------
\* this call resumes a checkpoint without widening, with the persisted batch size
Resumes == restored /\ ~widen_search /\ loaded.exists /\ batch = loaded.batch

\* the rows [batch*k, batch*(k+1)) of overall batch k
BatchRows(k) == {r \in Nat : batch * k <= r /\ r < batch * (k + 1)}

\* C1 Resume position: a call that resumes the checkpoint of overall batch
\* i (continuation on, widening off, same batch size) starts from the
\* persisted point set unchanged, its first executor call evaluates the
\* rows of overall batch i+1 (those the point set has), and no executor call
\* of that run evaluates a row of a batch with index <= i.
C1_ResumePosition ==
    Resumes =>
        /\ (pc \in {"budget", "generate", "explore", "explore_eval", "explore_map"}
              /\ evalLog = <<>>)
             => (bound /\ points = loaded.points)
        /\ evalLog # <<>> =>
             /\ evalLog[1].start = batch * (loaded.curr_iter + 1)
             /\ evalLog[1].rows = {r \in 0..(evalLog[1].len - 1) :
                                      r \in BatchRows(loaded.curr_iter + 1)}
        /\ \A k \in 1..Len(evalLog) : \A r \in evalLog[k].rows :
             r >= batch * (loaded.curr_iter + 1)

\* a resumed run has made two executor calls, the first one for batch i+1
C1_Witness ==
    /\ Resumes
    /\ Len(evalLog) >= 2
    /\ evalLog[1].ok
    /\ evalLog[1].start = batch * (loaded.curr_iter + 1)

BatchWork ==
    {"explore_eval", "explore_map", "explore_save", "select", "exploit_eval",
     "exploit_map", "exploit_save"}

\* C2 Stop signal: the work of a batch (fit, candidate selection, executor
\* call, checkpoint) only happens after a stop check for that batch that
\* found no stop marker; a check that finds the marker ends the call in
\* "stopped" with no executor acquired or invoked, no candidate selected,
\* no point changed and the checkpoint and result file as the last
\* completed batch left them.
C2_StopSignal ==
    [][ /\ pc' \in BatchWork => (checked' /\ ~stop')
        /\ (pc' # "load" /\ fit' # fit) => (checked' /\ ~stop')
        /\ (pc' # "load" /\ (candLog' # candLog \/ held' > held
                                \/ Len(evalLog') > Len(evalLog)
                                \/ Len(writes') > Len(writes)))
             => (checked /\ ~stop)
        /\ (pc \in {"explore", "exploit"} /\ checked' /\ stop')
             => /\ pc' = "stopped"
                /\ savefile' = savefile
                /\ savefile = baseCkpt
                /\ resfile' = resfile
                /\ points' = points
                /\ held' = held
                /\ held = 0
                /\ evalLog' = evalLog
                /\ candLog' = candLog
                /\ fit' = fit
                /\ (writes = <<>> => savefile = IF restored THEN loaded ELSE baseCkpt)
      ]_vars

\* a call stopped at the top of an exploitation batch after completing one
C2_Witness ==
    /\ pc = "stopped"
    /\ stop
    /\ writes # <<>>
    /\ candLog # <<>>
    /\ savefile = baseCkpt

\* C3 Checkpoint after every batch: every completed batch has written one
\* checkpoint whose curr_iter is the overall index of that batch, the index
\* lying in the range of its phase, and the curr_iter written by one call
\* go up by exactly one from write to write.
C3_CheckpointEveryBatch ==
    /\ pc \in {"explore", "normalize", "exploit", "final", "done", "stopped"}
         => Len(writes) = Len(evalLog)
    /\ \A k \in 1..Len(writes) :
         /\ k <= Len(evalLog)
         /\ writes[k] * batch = evalLog[k].start
         /\ evalLog[k].phase = "explore" => (0 <= writes[k] /\ writes[k] < n \div batch)
         /\ evalLog[k].phase = "exploit"
              => (n \div batch <= writes[k] /\ writes[k] < (n + m) \div batch)
         /\ k > 1 => writes[k] = writes[k - 1] + 1

\* C4 Batch ordering: the executor calls of one call go through the overall
\* batch indices in steps of one, exploration before exploitation, each on
\* the rows [batch*k, batch*(k+1)) of its batch k.
C4_BatchOrdering ==
    \A k \in 1..Len(evalLog) :
       /\ evalLog[k].start % batch = 0
       /\ evalLog[k].rows = {r \in 0..(evalLog[k].start + batch) :
                                r \in BatchRows(evalLog[k].start \div batch)}
       /\ k > 1 =>
            /\ evalLog[k].start = evalLog[k - 1].start + batch
            /\ evalLog[k].phase = "explore" => evalLog[k - 1].phase = "explore"

\* the rows this call has evaluated
EvaluatedRows == UNION {evalLog[k].rows : k \in {l \in 1..Len(evalLog) : evalLog[l].ok}}

\* C5 Append-only point set: a row evaluated by this call keeps its place
\* and its coordinates in every later step of the call (the final report
\* aside), is not evaluated a second time, and a candidate is only stored
\* in a row that held no evaluated point.
C5_AppendOnly ==
    [][ (pc' \notin {"load", "done"}) =>
          /\ \A r \in EvaluatedRows :
               /\ r < Len(points')
               /\ Row(points', r).x = Row(points, r).x
          /\ \A k \in 1..Len(evalLog') : \A l \in 1..Len(evalLog') :
               k < l => evalLog'[k].rows \cap evalLog'[l].rows = {}
          /\ \A k \in 1..Len(candLog') : candLog'[k].old = [x |-> 0, v |-> Zero]
      ]_vars

\* C6 Exploitation index range: every stored candidate has a global index
\* i*batch+j in 0..m-1, a point count n+i*batch+j >= n, and that count is
\* the number of rows placed before it.
C6_ExploitIndexRange ==
    \A k \in 1..Len(candLog) :
       /\ 0 <= candLog[k].g
       /\ candLog[k].g <= m - 1
       /\ candLog[k].count >= n
       /\ candLog[k].count = candLog[k].placed

\* C7 Completion: a call with a point set that passed the n > d check, saw
\* no stop marker and whose objective did not raise ends in DONE, and a
\* fresh call has then made budget/batch executor calls on budget rows in all.
C7_Completion ==
    /\ (pc = "failed" /\ bound) => err = "ObjectiveError"
    /\ (pc = "done" /\ ~restored) =>
         /\ Len(evalLog) = budget \div batch
         /\ Cardinality(EvaluatedRows) = budget

\* C8 Fresh initialisation: a call that loaded no checkpoint enters the
\* exploration loop with a point set of n R-sequence rows, whatever its flags.
C8_FreshInitialisation ==
    (~restored /\ pc \in {"explore", "explore_eval", "explore_map"} /\ evalLog = <<>>)
       => /\ bound
          /\ points = [k \in 1..n |-> [x |-> k, v |-> Zero]]

\* C9 Insufficient budget: past the budget check the call is aborted exactly
\* when n <= d, and an aborted call has acquired no executor, made no
\* executor call and left checkpoint and result file as it found them.
C9_InsufficientBudget ==
    /\ pc \notin {"idle", "load", "budget"} => ((pc = "aborted") <=> (n <= d))
    /\ pc = "aborted" =>
         /\ evalLog = <<>>
         /\ candLog = <<>>
         /\ writes = <<>>
         /\ held = 0
         /\ savefile = baseCkpt
         /\ resfile = baseRes
         /\ restored => savefile = loaded

\* a call aborted although a checkpoint and a result file exist
C9_Witness ==
    /\ pc = "aborted"
    /\ savefile.exists
    /\ resfile.exists
    /\ n <= d

\* budget' is the smallest multiple of batch >= budget, n' the smallest
\* multiple of batch >= budget' \div 2, m' the rest
RoundingShape ==
    /\ budget' % batch = 0
    /\ budget' >= budget
    /\ budget' - batch < budget
    /\ n' % batch = 0
    /\ n' >= budget' \div 2
    /\ n' - batch < budget' \div 2
    /\ m' = budget' - n'
    /\ m' % batch = 0
    /\ n' + m' = budget'
    /\ (budget = 97 /\ batch = 10) => (budget' = 100 /\ n' = 50 /\ m' = 50)

\* C10 as stated: the rounding gives 0 <= m <= n for every budget and batch
C10_Original ==
    [][pc = "budget" => (RoundingShape /\ 0 <= m' /\ m' <= n')]_vars

\* C10 Budget rounding, amended: the adjusted budget is the smallest
\* multiple of batch >= budget, n the smallest multiple of batch >= half of
\* it (rounded down), m the rest, both multiples of batch, m >= 0, and
\* m <= n except for batch = 1 with an odd budget, where m = n + 1.
C10_BudgetRounding ==
    [][pc = "budget" =>
         /\ RoundingShape
         /\ 0 <= m'
         /\ IF batch = 1 /\ budget' % 2 = 1 THEN m' = n' + 1 ELSE m' <= n'
      ]_vars

\* the budget of 97 with batches of 10, rounded
C10_Witness ==
    /\ pc = "generate"
    /\ batch = 10
    /\ budget = 100
    /\ n = 50
    /\ m = 50


\* ------------------------------------------------------------------------
\* C11: candidate feasibility.  Every candidate stored in the point set is
\* a point of the unit cube the solver returned, and it keeps the required
\* distance from the rows it was constrained against; a result of a failed
\* solve, which violates a distance constraint, is never stored.
\* ------------------------------------------------------------------------
C11_CandidateFeasibility ==
    \A k \in 1..Len(candLog) :
        /\ candLog[k].x \in SolverPoints
        /\ points[candLog[k].row + 1].x = candLog[k].x
              => candLog[k].feasible

\* ------------------------------------------------------------------------
\* C12: denormalised reporting.  In every report written, incremental or
\* final, the value of each evaluated row is the raw objective value of the
\* point of that row: the values are multiplied back by the fmax they were
\* divided by.  (A row not yet evaluated carries the value 0.)
\* ------------------------------------------------------------------------
\* the point of the cube a reported row stands for
CubePoint(row) == (row.x - 100) \div 10

ReportedRaw(row) == row.v = Zero \/ row.v = <<Objective(CubePoint(row)), 1>>

\* the report on disk was written by the current call, which does not widen
\* and, when it resumes, runs with the batch size of the checkpoint
ReportOfPlainCall ==
    /\ resfile.exists
    /\ writes # <<>> \/ pc = "done"
    /\ ~widen_search
    /\ restored => batch = loaded.batch

C12_DenormalisedReporting ==
    ReportOfPlainCall => \A k \in 1..Len(resfile.rows) : ReportedRaw(resfile.rows[k])

\* ------------------------------------------------------------------------
\* C13: final report shape.  When a call ends DONE the final report holds
\* one row for each evaluated point and no zero-filled row that was never
\* evaluated, and its rows ascend by value, the minimum first.
\* ------------------------------------------------------------------------
Ascending(rows) ==
    \A k \in 1..(Len(rows) - 1) : RLeq(rows[k].v, rows[k + 1].v)

\* the second call, resuming what a first, fresh call with the same batch
\* size left behind
SecondPlainCall == runs = 2 /\ ReportOfPlainCall

C13_FinalReportShape ==
    (pc = "done" /\ SecondPlainCall) =>
        /\ Len(resfile.rows) = Len(points)
        /\ \A k \in 1..Len(resfile.rows) : resfile.rows[k].x # cubetobox(0)
        /\ Ascending(resfile.rows)

\* ------------------------------------------------------------------------
\* C14: restored configuration.  A call that resumes a checkpoint works
\* with the checkpoint's domain, budget (unless it widens), batch size,
\* point set and iteration index, not with its arguments; in particular the
\* first row it evaluates is the first row after the persisted batches,
\* whatever batch argument it was given.
\* ------------------------------------------------------------------------
C14_RestoredConfiguration ==
    (restored /\ pc # "load") =>
        /\ domain = loaded.domain
        /\ curr_iter = loaded.curr_iter + 1
        /\ batch = loaded.batch
        /\ ~widen_search => budget = loaded.budget
        /\ (~widen_search /\ evalLog # <<>>) =>
              evalLog[1].start = loaded.batch * (loaded.curr_iter + 1)

\* ------------------------------------------------------------------------
\* C15: widening frame.  A call that resumes with widening keeps the
\* coordinates and the value of every row the checkpoint holds as evaluated,
\* adds its new rows after the rows of the checkpoint, makes its first
\* executor call for overall batch curr_iter, the first unevaluated rows, and
\* evaluates no row twice.
\* ------------------------------------------------------------------------
Widens == restored /\ widen_search /\ loaded.exists

\* the rows the checkpoint holds with an objective value
PriorEvaluated ==
    {row \in 0..(Len(loaded.points) - 1) : loaded.points[row + 1].v # Zero}

ExplorePhase == {"explore", "explore_eval", "explore_map", "explore_save"}

C15_WideningFrame ==
    (Widens /\ pc \in ExplorePhase \cup {"normalize"}) =>
        /\ Len(points) >= Len(loaded.points)
        /\ \A row \in PriorEvaluated : Row(points, row) = Row(loaded.points, row)
        /\ evalLog # <<>> =>
              /\ evalLog[1].phase = "explore"
              /\ evalLog[1].i = curr_iter
        /\ \A k \in 1..Len(evalLog) :
              /\ evalLog[k].rows \cap PriorEvaluated = {}
              /\ \A l \in 1..Len(evalLog) :
                    l # k => evalLog[k].rows \cap evalLog[l].rows = {}
        /\ pc = "normalize" =>
              \A row \in (curr_iter * batch)..(n - 1) : Row(points, row).v # Zero

\* ------------------------------------------------------------------------
\* C16: scoped executor.  An executor is acquired only to evaluate a batch,
\* once per batch, and it is released when the evaluation returns or raises,
\* before the checkpoint of that batch is written: at most one is held, none
\* is held during fit and candidate selection, while a checkpoint is written
\* or after the call has ended.
\* ------------------------------------------------------------------------
Mapping == {"explore_map", "exploit_map"}

C16_ScopedExecutor ==
    [][ /\ held' \in {0, 1}
        /\ held' = 1 <=> pc' \in Mapping
        /\ held' > held => (pc \in {"explore_eval", "exploit_eval"} /\ held = 0)
        /\ pc \in Mapping => (held = 1 /\ held' = 0)
        /\ (pc' # "load" /\ writes' # writes) => (held = 0 /\ held' = 0)
        /\ (pc' # "load" /\ candLog' # candLog) => (held = 0 /\ held' = 0)
        /\ (pc' # "load" /\ Len(writes') > Len(writes)) =>
              Len(evalLog) = Len(writes') ]_vars

\* an evaluation raised and the call ended with no executor held
C16_Witness ==
    /\ pc = "failed"
    /\ err = "ObjectiveError"
    /\ evalLog # <<>>
    /\ ~evalLog[Len(evalLog)].ok
    /\ Len(writes) >= 1
    /\ held = 0

\* ------------------------------------------------------------------------
\* C17: radius monotonic decay.  For fixed n, m, d, rho0 > 0, p > 0 and v1
\* the radius of the candidate with global index g does not increase as g
\* goes from 0 to m-1, is finite and positive while g < m-1 and is 0 at
\* g = m-1.  The d-th root is increasing, so this is stated for r ** d, the
\* density term rho0*((m-1-g)/(m-1))**p/(v1*(n+g)).
\* ------------------------------------------------------------------------
Positive(x) == x[1] > 0 /\ x[2] > 0

C17_RadiusDecay ==
    [][ /\ RLeq(rpow', rpow)
        /\ i * batch + j < m - 1 => Positive(rpow)
        /\ rpow'[2] > 0
        /\ i' * batch + j' < m - 1 => Positive(rpow')
        /\ i' * batch + j' = m - 1 => rpow' = Zero ]_vars

\* the last candidate of a phase of at least three: its radius is 0
C17_Witness ==
    /\ pc = "select"
    /\ m >= 3
    /\ i * batch + j = m - 1
    /\ rpow = Zero
    /\ rpow = Density(rho0, pdecay, V1(d), n, m, m - 1)

\* ------------------------------------------------------------------------
\* C18: widening sample indices.  The coordinates a widening resume writes
\* are sampler points whose sequence indices continue after the indices
\* already used: no row filled by widening has the coordinates of a
\* quasi-random row that was evaluated before.
\* ------------------------------------------------------------------------
C18_WideningSampleIndices ==
    (Widens /\ batch = loaded.batch /\ pc = "explore" /\ evalLog = <<>>) =>
        \A row \in (curr_iter * batch)..(Len(points) - 1) :
            \A e \in PriorEvaluated :
                (e < curr_iter * batch /\ Row(loaded.points, e).x > 0)
                    => Row(points, row).x # Row(loaded.points, e).x

\* ------------------------------------------------------------------------
\* C19: candidate retry loop.  A rejected solver result changes nothing but
\* the count of rejections: no row is written, no executor is acquired or
\* called, no checkpoint or report is written and the call does not end.
\* The loop ends with the first result that is not rejected, which is
\* stored at once.  If the solver does not return NaN for ever, every
\* candidate selection that has rejected a result ends.
\* ------------------------------------------------------------------------
Retrying == pc = "select" /\ ~RadiusRaises(i * batch + j) /\ retries > 0

C19_RetryLoop ==
    /\ [][ /\ retries' > retries =>
                UNCHANGED <<points, evalLog, writes, savefile, resfile, held,
                            pc, err, i, j, candLog, fit, fmax>>
           /\ (pc = "select" /\ (j' # j \/ pc' # "select")) => retries' = 0
           /\ (pc' # "load" /\ candLog' # candLog) =>
                /\ Len(candLog') = Len(candLog) + 1
                /\ Row(points', candLog'[Len(candLog')].row).x
                      = candLog'[Len(candLog')].x ]_vars
    /\ Retrying ~> (retries = 0)

\* a result has been rejected for a later candidate of a resumed call
C19_Witness ==
    /\ Retrying
    /\ candLog # <<>>
    /\ writes # <<>>

\* ------------------------------------------------------------------------
\* C20: resuming a finished run.  A call that resumes, with continuation
\* on, widening off and the same batch size, a checkpoint of the last batch
\* (curr_iter = adjusted budget / batch - 1) finds both loops empty: it
\* acquires no executor, selects no candidate, leaves the checkpoint as it
\* is and ends DONE with the final report of the restored point set.
\* ------------------------------------------------------------------------
ResumesFinished ==
    /\ Resumes
    /\ pc \notin {"load", "budget"}
    /\ loaded.curr_iter = (budget \div batch) - 1

C20_ResumeFinished ==
    ResumesFinished =>
        /\ pc \in {"generate", "explore", "normalize", "exploit", "final", "done"}
        /\ evalLog = <<>>
        /\ candLog = <<>>
        /\ writes = <<>>
        /\ held = 0
        /\ ~checked
        /\ savefile = loaded
        /\ Len(points) = Len(loaded.points)
        /\ pc = "done" => resfile.rows = save_csv(loaded.points, One, TRUE)

\* a finished run with an exploitation phase was resumed and ended DONE
C20_Witness ==
    /\ ResumesFinished
    /\ m > 0
    /\ pc = "done"
    /\ \E k \in 1..Len(loaded.points) : loaded.points[k].x \in SolverPoints

====
